---- MODULE Spec2Model ----
(***************************************************************************)
(* CSAuthenticationService                                                 *)
(* (src/vs/workbench/services/csAccount/browser/csAuthenticationService.ts)*)
(* as a state machine.                                                     *)
(*                                                                         *)
(* Every call of an async method is a process (an entry of `calls`).  One  *)
(* step of the model runs a call from the completion of one awaited        *)
(* operation to the point where it waits for the next one: JavaScript runs *)
(* that stretch without interruption.  An awaited secret-storage operation *)
(* takes effect in the step that completes it; secret storage serves the   *)
(* operations on the one key in the order they were issued (storageQueue). *)
(* What the remote endpoints, the browser callback, the user and the       *)
(* secret storage answer is chosen nondeterministically.                   *)
(*                                                                         *)
(* `settled` holds, in the state right after a call has returned or        *)
(* thrown, that call's record; nothing else is kept of a finished call.    *)
(*                                                                         *)
(* EditModelConfigurationWidget, of the same file, is a second state       *)
(* machine (SpecWidget): the widget's fields, the model selection its      *)
(* save() reads and writes, and the runs of save() (`saves`), stepped from *)
(* await to await like the calls of the service.                           *)
(* EditProviderConfigurationWidget is a third one; SpecWidgets runs the    *)
(* two widgets, which have no field in common.                             *)
(***************************************************************************)
EXTENDS Integers, Sequences, FiniteSets, TLC

VARIABLES
    _session,        \* this._session: the cached session, or undefined
    secret,          \* the secret-storage slot SESSION_SECRET_KEY: a JSON text, or undefined
    _pendingStates,  \* this._pendingStates: correlation identifiers of login attempts
    handlers,        \* URL handlers registered with urlService, in registration order
    timers,          \* login attempts whose setTimeout has not fired yet
    storageQueue,    \* calls whose secret-storage operation is issued and not completed
    calls,           \* the async calls in progress: position, locals, what each did so far
    settled,         \* the call whose promise settled in the latest step, with its result
    \* EditModelConfigurationWidget and the model selection it edits
    _isVisible,              \* this._isVisible
    currentMode,             \* this.currentMode: "edit" or "add"
    initialModelItemEntry,   \* this.initialModelItemEntry, or null
    modelItemEntry,          \* this.modelItemEntry, or null
    saveButton,              \* this.saveButton.enabled
    onHide,                  \* listeners of this._onHide: promises of add()/edit() not resolved yet
    promises,                \* for each add()/edit() call, in order: calls of its resolve
    slowModel,               \* modelSelection.json: the key selected as slowModel
    models,                  \* modelSelection.json: the name of the model configured under each key
    openedBy,                \* the call, add() or edit(), that made the widget visible
    openings,                \* how many times the widget has been made visible
    saves,                   \* the save() runs: position, locals, what each did so far
    saved,                   \* the save() that returned in the latest step, with its result
    \* EditProviderConfigurationWidget and the provider configurations it edits
    providerVisible,             \* this._isVisible
    initialProviderItemEntry,    \* this.initialProviderItemEntry, or null
    providerItemEntry,           \* this.providerItemEntry, or null
    providerSaveButton,          \* this.saveButton.enabled
    providerOnHide,              \* listeners of this._onHide
    providerPromises,            \* for each edit() call, in order: calls of its resolve
    providers,                   \* modelSelection.json: the configuration of each provider
    providerOpenings,            \* how many times the widget has been made visible
    providerSaves,               \* the save() runs: position, locals, what each did so far
    providerSaved                \* the save() that returned in the latest step

serviceVars ==
    <<_session, secret, _pendingStates, handlers, timers, storageQueue, calls, settled>>

widgetVars ==
    <<_isVisible, currentMode, initialModelItemEntry, modelItemEntry, saveButton,
      onHide, promises, slowModel, models, openedBy, openings, saves, saved>>

providerVars ==
    <<providerVisible, initialProviderItemEntry, providerItemEntry, providerSaveButton,
      providerOnHide, providerPromises, providers, providerOpenings, providerSaves,
      providerSaved>>

vars == <<serviceVars, widgetVars, providerVars>>

\* ------------------------------------------------------------------ bounds

\* API calls (createSession, refreshTokens, deleteSession) made after construction.
MaxCalls == 2

\* save() runs of the widget, and promises of add()/edit() outstanding at once.
MaxSaves == 2
MaxListeners == 2
\* Times a widget is made visible.
MaxOpenings == 1

\* Call 0 is initialize(), started by the constructor.
Calls == 1..MaxCalls
Procs == 0..MaxCalls

\* ------------------------------------------------------------------ values

\* A JavaScript value of the session data: a tag and a number.
Val(tag, n) == [t |-> tag, v |-> n]

undefined == Val("undefined", 0)

\* generateUuid(): a new identifier; n is the call that generates it.
generateUuid(n) == Val("uuid", n)

\* EncodedCSTokenData: one token pair as an endpoint issues it.  Every pair
\* issued is new: n is the call whose refresh request or login attempt the pair
\* was issued for (-1: issued before this run).
EncodedCSTokenData(n) ==
    [access_token |-> Val("access", n), refresh_token |-> Val("refresh", n)]

\* waitlist positions the profile endpoint reports (0 = not waitlisted)
WaitlistPositions == {0, 3}

\* CSUserProfileResponse: the bodies the profile endpoint may answer a request
\* carrying `bearer` with: the profile of the user the token belongs to, or a
\* JSON error body that has neither `user` nor `waitlistPosition`.
ProfileBodies(bearer) ==
    {[user |-> Val("user", bearer.v), waitlistPosition |-> Val("num", w)] :
        w \in WaitlistPositions}
    \cup {[user |-> undefined, waitlistPosition |-> undefined]}

\* The base64 encoding of the JSON of token pair n.
Base64(n) == Val("base64", n)

\* ---------------------------------------------------------- JSON conversion

SessionKeys == <<"id", "accessToken", "refreshToken", "account", "waitlistPosition">>

\* JSON.stringify(session): the key/value pairs in key order; a key whose value
\* is undefined is left out.
JSONstringify(session) ==
    Val("json",
        SelectSeq([i \in 1..Len(SessionKeys) |->
                      <<SessionKeys[i], session[SessionKeys[i]]>>],
                  LAMBDA kv : kv[2] /= undefined))

\* JSON.parse(text) read as a CSAuthenticationSession: a key the text does not
\* have reads as undefined.
JSONparse(text) ==
    [key \in {SessionKeys[i] : i \in 1..Len(SessionKeys)} |->
        IF \E j \in 1..Len(text.v) : text.v[j][1] = key
        THEN text.v[CHOOSE j \in 1..Len(text.v) : text.v[j][1] = key][2]
        ELSE undefined]

\* getSession(): what a call returns whose secret-storage read completes in
\* this state.
getSession == IF secret /= undefined THEN JSONparse(secret) ELSE undefined

\* The session found in secret storage at start-up, if any.
PersistedSession ==
    [id |-> generateUuid(-1),
     accessToken |-> EncodedCSTokenData(-1).access_token,
     refreshToken |-> EncodedCSTokenData(-1).refresh_token,
     account |-> Val("user", -1),
     waitlistPosition |-> Val("num", 0)]

\* ------------------------------------------------------------------ calls

\* What each field of a call holds:
\*   call      the number of the call; kind: the method called
\*   pc        the await the call is suspended at
\*   data      the token pair in hand (the local `data` / `tokens`)
\*   session   the session handed to setSession while its write is awaited
\*   login     the value login() resolved to
\*   outcome   the path the call ended on; error: what its promise rejected with
\*   requests, errorNotes, waitlistNotes, fired: what the call has done so far:
\*             HTTP requests sent, notifications posted, onDidAuthenticate fired
\*   posted    the refresh tokens the call has POSTed to the refresh endpoint
NoCall(p) ==
    [call |-> p, kind |-> "none", pc |-> "idle", data |-> undefined,
     session |-> undefined, login |-> undefined, outcome |-> "", error |-> "",
     requests |-> 0, errorNotes |-> 0, waitlistNotes |-> 0, fired |-> 0,
     posted |-> <<>>]

\* No call settled in the latest step.
Nothing == NoCall(-1)

Idle(p) == calls[p].pc = "idle"

\* API calls are numbered in the order they are made.
CanStart(p) == Idle(p) /\ (p > 1 => ~Idle(p - 1))

\* The call's promise settles: resolved when error = "", else rejected with it.
Settle(c, outcome, error) ==
    [c EXCEPT !.pc = "done", !.outcome = outcome, !.error = error]

\* What is kept of a call that has settled.
Finished(p) == [NoCall(p) EXCEPT !.pc = "done"]

\* Call p goes on as record c, or has settled as c.
Becomes(p, c) ==
    /\ calls' = [calls EXCEPT ![p] = IF c.pc = "done" THEN Finished(p) ELSE c]
    /\ settled' = IF c.pc = "done" THEN c ELSE Nothing

\* ------------------------------------------ model configuration: values

\* null, and a value that is not null.
null == <<>>
Some(x) == <<x>>

\* Model keys: none typed yet, the key of a default model, the key of a model
\* the user has configured, a key not in use at start.
ModelKeys == {"", "default", "mine", "new"}
\* What the user types into the model id and the model name inputs.
TypedKeys == {"new"}
TypedNames == {"B"}
\* What the user makes of the remaining fields: complete.
TypedFields == {TRUE}

\* No model is configured under a key.
NoModel == "none"

\* checkIfDefaultModel(key), line 680.
checkIfDefaultModel(key) == key = "default"

\* IModelItemEntry.modelItem, as far as save() looks at it: key, name, whether
\* the provider selected is configured (isProviderItemConfigComplete) and
\* whether the remaining fields are filled in (isModelItemConfigComplete).
\* A model item is a record [key, name, provider, fields].
isProviderItemConfigComplete(modelItem) == modelItem.provider
isModelItemConfigComplete(modelItem) == modelItem.fields

\* defaultModelItemEntry of add(providerItems), lines 460-469.
defaultModelItemEntry(openRouterConfigured) ==
    [key |-> "", name |-> "", provider |-> openRouterConfigured, fields |-> FALSE]

\* The entries of the model list that edit(entry, providerItems) is called
\* with: one for each model configured, its provider configured or not.
ListedEntries ==
    {[key |-> k, name |-> models[k], provider |-> c, fields |-> TRUE] :
        k \in {key \in ModelKeys : models[key] /= NoModel}, c \in BOOLEAN}

Saves == 1..MaxSaves

\* What each field of a save() run holds:
\*   pc                 the await the run is suspended at
\*   initialModelItem, updatedModelItem, previousSlowModel, valid: its locals
\*   outcome            the path it ended on
\*   written            the configuration writes it has called, in order
\*   mode               this.currentMode as it read it at line 726
\*   origin             the slowModel selection when it was called or, if other
\*                      runs were in progress then, when the first of them was
\*   alone              no other run has been in progress during it
\*   others             how the runs that were in progress during it ended
\*   opener             the call that had made the widget visible
\*   dismissed          the user has hidden the widget during it
NoSave(s) ==
    [save |-> s, pc |-> "idle", initialModelItem |-> null, updatedModelItem |-> null,
     previousSlowModel |-> "", valid |-> FALSE, outcome |-> "", written |-> <<>>,
     mode |-> "", origin |-> "", alone |-> TRUE, others |-> {}, opener |-> "", dismissed |-> FALSE]

NoSaved == NoSave(0)

\* The widget as constructed (lines 314-318, 348), over a model selection.
WidgetConstructed ==
    /\ _isVisible = FALSE
    /\ currentMode = "edit"
    /\ initialModelItemEntry = null
    /\ modelItemEntry = null
    /\ saveButton = TRUE
    /\ onHide = 0
    /\ promises = <<>>
    /\ openedBy = ""
    /\ openings = 0
    /\ saves = [s \in Saves |-> NoSave(s)]
    /\ saved = NoSaved

\* The providers: each has a type, a name and one more field, its API key.
ProviderTypes == {"openai-default", "togetherai"}
providerName(type) == IF type = "openai-default" THEN "OpenAI" ELSE "Together AI"
\* What the user types into the field.
TypedApiKeys == {"", "sk-1", "sk-2"}

\* The entries of the provider list that edit(entry) is called with.
ListedProviders ==
    {[type |-> type, name |-> providerName(type), apiKey |-> providers[type]] :
        type \in ProviderTypes}

\* ModelSelectionEditorModel.getProviderConfig(entry), lines 887-888, 913-914:
\* the provider's configuration, which has no type.
getProviderConfig(providerItem) ==
    [name |-> providerItem.name, apiKey |-> providerItem.apiKey]

\* What each field of a run of EditProviderConfigurationWidget.save() holds:
\*   pc                 the await the run is suspended at
\*   outcome            the path it ended on
\*   initial, entry     the entries of the widget when it was called
\*   written            its calls of editProviderConfiguration, in order
NoProviderSave(s) ==
    [save |-> s, pc |-> "idle", outcome |-> "", initial |-> null, entry |-> null,
     written |-> <<>>]

NoProviderSaved == NoProviderSave(0)

\* EditProviderConfigurationWidget as constructed (lines 752-762, 815), over
\* providers that have no API key yet.
ProviderConstructed ==
    /\ providerVisible = FALSE
    /\ initialProviderItemEntry = null
    /\ providerItemEntry = null
    /\ providerSaveButton = FALSE
    /\ providerOnHide = 0
    /\ providerPromises = <<>>
    /\ providers = [type \in ProviderTypes |-> ""]
    /\ providerOpenings = 0
    /\ providerSaves = [s \in Saves |-> NoProviderSave(s)]
    /\ providerSaved = NoProviderSaved

\* modelSelection.json when the widget is constructed.
ModelSelections ==
    {[key \in ModelKeys |->
         CASE key = "default" -> "Default"
           [] key = "mine" -> "A"
           [] key = "new" -> taken
           [] OTHER -> NoModel] : taken \in {NoModel, "B"}}

Init ==
    /\ WidgetConstructed
    /\ ProviderConstructed
    /\ slowModel = "default"
    /\ models \in {m \in ModelSelections : m["new"] = NoModel}
    /\ _session = undefined
    /\ secret \in {undefined, JSONstringify(PersistedSession)}
    /\ _pendingStates = <<>>
    /\ handlers = <<>>
    /\ timers = {}
    /\ storageQueue = <<0>>
    /\ calls = [p \in Procs |->
                  IF p = 0 THEN [NoCall(p) EXCEPT !.kind = "initialize", !.pc = "awaitGet"]
                  ELSE NoCall(p)]
    /\ settled = Nothing

\* ------------------------------------------------------- secret storage

\* An operation on the secret is issued by call p, which then awaits it.
Issued(p) == Append(storageQueue, p)
\* The operation call p awaits is the next one secret storage completes.
Completes(p) == storageQueue /= <<>> /\ Head(storageQueue) = p

\* Mutant of deleteSession: the delete leaves the slot as it is.
deleteSessionKeepsSecret == secret

\* secretStorageService.delete(SESSION_SECRET_KEY) has completed (line 157).
deleteSession == undefined

\* Mutant of setSession: a partial write that keeps the refresh token of the
\* record already stored.
setSessionPartial(session) ==
    IF secret = undefined THEN JSONstringify(session)
    ELSE JSONstringify([session EXCEPT !.refreshToken = JSONparse(secret).refreshToken])

\* setSession(session) has completed (line 153): the slot holds the whole
\* record's JSON.
setSession(session) == JSONstringify(session)

\* ------------------------------------------------------- refreshTokens()

\* Mutant of NotifyRejected: the rejected refresh notifies nobody.
NotifyRejectedSilently(c) == c

\* The error notification of a rejected refresh (notificationService.notify).
NotifyRejected(c) == [c EXCEPT !.errorNotes = @ + 1]

\* Mutant of RefreshEnter: the refresh request is sent without looking at the
\* cached session.
RefreshEnterUnguarded(c, session) ==
    [c EXCEPT !.pc = "awaitRefresh", !.requests = @ + 1,
              !.posted = Append(@, IF session = undefined THEN undefined
                                   ELSE session.refreshToken)]

\* Lines 72-85: without a cached session, return; else POST the refresh token.
RefreshEnter(c, session) ==
    IF session = undefined
    THEN Settle(c, "noSession", "")
    ELSE [c EXCEPT !.pc = "awaitRefresh", !.requests = @ + 1,
                   !.posted = Append(@, session.refreshToken)]

\* Mutant of RefreshRejected: notify and throw without deleting the session.
RefreshRejectedNoDelete(c) == Settle(NotifyRejected(c), "rejected", "")

\* Lines 86-96: a non-success status: notify, then await deleteSession().
RefreshRejected(c) == [NotifyRejected(c) EXCEPT !.pc = "awaitDelete"]

\* Mutant of newSession: the refresh token of the replaced session is kept.
newSessionStaleRefreshToken(session, data, userProfile) ==
    [id |-> session.id,
     accessToken |-> data.access_token,
     refreshToken |-> session.refreshToken,
     account |-> userProfile.user,
     waitlistPosition |-> userProfile.waitlistPosition]

\* Lines 109-115: the replacement session.
newSession(session, data, userProfile) ==
    [id |-> session.id,
     accessToken |-> data.access_token,
     refreshToken |-> data.refresh_token,
     account |-> userProfile.user,
     waitlistPosition |-> userProfile.waitlistPosition]

IsRefresh(p) == calls[p].kind \in {"initialize", "refreshTokens"}

\* initialize(): the persisted session is read into the cache, then
\* refreshTokens() runs up to its first await.
InitializeLoad ==
    /\ calls[0].pc = "awaitGet"
    /\ Completes(0)
    /\ storageQueue' = Tail(storageQueue)
    /\ _session' = getSession
    /\ Becomes(0, RefreshEnter(calls[0], getSession))
    /\ UNCHANGED <<secret, _pendingStates, handlers, timers, widgetVars, providerVars>>

\* The command codestory.refreshTokens, or any caller of refreshTokens().
RefreshTokens(p) ==
    /\ CanStart(p)
    /\ Becomes(p, RefreshEnter([calls[p] EXCEPT !.kind = "refreshTokens"], _session))
    /\ UNCHANGED <<_session, secret, _pendingStates, handlers, timers, storageQueue,
                   widgetVars, providerVars>>

\* The refresh endpoint does not answer (fetch throws) or answers 2xx with a
\* body that is no JSON: caught at line 117.
RefreshFails(p) ==
    /\ IsRefresh(p) /\ calls[p].pc = "awaitRefresh"
    /\ \E why \in {"networkError", "badJson"} :
          Becomes(p, Settle(calls[p], why, ""))
    /\ UNCHANGED <<_session, secret, _pendingStates, handlers, timers, storageQueue,
                   widgetVars, providerVars>>

\* The refresh endpoint answers with a non-success status.
RefreshNotOk(p) ==
    /\ IsRefresh(p) /\ calls[p].pc = "awaitRefresh"
    /\ Becomes(p, RefreshRejected(calls[p]))
    /\ storageQueue' = Issued(p)
    /\ UNCHANGED <<_session, secret, _pendingStates, handlers, timers, widgetVars, providerVars>>

\* The refresh endpoint answers with a new token pair: fetch the profile with
\* the new access token (lines 97-106).
RefreshOk(p) ==
    /\ IsRefresh(p) /\ calls[p].pc = "awaitRefresh"
    /\ Becomes(p, [calls[p] EXCEPT !.pc = "awaitProfile",
                                   !.data = EncodedCSTokenData(p),
                                   !.requests = @ + 1])
    /\ UNCHANGED <<_session, secret, _pendingStates, handlers, timers, storageQueue,
                   widgetVars, providerVars>>

\* The profile request fails, or its body is no JSON: caught at line 117.
RefreshProfileFails(p) ==
    /\ IsRefresh(p) /\ calls[p].pc = "awaitProfile"
    /\ Becomes(p, Settle(calls[p], "profileError", ""))
    /\ UNCHANGED <<_session, secret, _pendingStates, handlers, timers, storageQueue,
                   widgetVars, providerVars>>

\* The profile endpoint answers with a JSON body: assemble the new session and
\* call setSession (line 152 runs at once, line 153 is awaited).  this._session
\* is read again here; if it is undefined by now, reading its id throws.
RefreshProfile(p) ==
    /\ IsRefresh(p) /\ calls[p].pc = "awaitProfile"
    /\ \E userProfile \in ProfileBodies(calls[p].data.access_token) :
          IF _session = undefined
          THEN /\ Becomes(p, Settle(calls[p], "typeError", ""))
               /\ UNCHANGED <<_session, storageQueue>>
          ELSE LET s == newSession(_session, calls[p].data, userProfile)
               IN /\ _session' = s
                  /\ Becomes(p, [calls[p] EXCEPT !.pc = "awaitSet", !.session = s])
                  /\ storageQueue' = Issued(p)
    /\ UNCHANGED <<secret, _pendingStates, handlers, timers, widgetVars, providerVars>>

\* The write of setSession completes (line 153).
RefreshSetCompletes(p) ==
    /\ IsRefresh(p) /\ calls[p].pc = "awaitSet" /\ Completes(p)
    /\ storageQueue' = Tail(storageQueue)
    /\ secret' = setSession(calls[p].session)
    /\ Becomes(p, Settle(calls[p], "refreshed", ""))
    /\ UNCHANGED <<_session, _pendingStates, handlers, timers, widgetVars, providerVars>>

\* The write fails (secret storage rejects): caught at line 117.
RefreshSetFails(p) ==
    /\ IsRefresh(p) /\ calls[p].pc = "awaitSet" /\ Completes(p)
    /\ storageQueue' = Tail(storageQueue)
    /\ Becomes(p, Settle(calls[p], "setError", ""))
    /\ UNCHANGED <<_session, secret, _pendingStates, handlers, timers, widgetVars, providerVars>>

\* deleteSession() of the rejected path completes; line 95 throws, line 117
\* catches.
RefreshDeleteCompletes(p) ==
    /\ IsRefresh(p) /\ calls[p].pc = "awaitDelete" /\ Completes(p)
    /\ storageQueue' = Tail(storageQueue)
    /\ secret' = deleteSession
    /\ Becomes(p, Settle(calls[p], "rejected", ""))
    /\ UNCHANGED <<_session, _pendingStates, handlers, timers, widgetVars, providerVars>>

\* Mutant of RefreshDeleteFails: the failure of the delete reaches the caller.
RefreshDeleteFailsPropagates(p) ==
    /\ IsRefresh(p) /\ calls[p].pc = "awaitDelete" /\ Completes(p)
    /\ storageQueue' = Tail(storageQueue)
    /\ Becomes(p, Settle(calls[p], "rejectedDeleteError", "DeleteError"))
    /\ UNCHANGED <<_session, secret, _pendingStates, handlers, timers, widgetVars, providerVars>>

\* deleteSession() of the rejected path fails: caught at line 117 as well.
RefreshDeleteFails(p) ==
    /\ IsRefresh(p) /\ calls[p].pc = "awaitDelete" /\ Completes(p)
    /\ storageQueue' = Tail(storageQueue)
    /\ Becomes(p, Settle(calls[p], "rejectedDeleteError", ""))
    /\ UNCHANGED <<_session, secret, _pendingStates, handlers, timers, widgetVars, providerVars>>

\* ------------------------------------------------------- deleteSession()

DeleteSession(p) ==
    /\ CanStart(p)
    /\ Becomes(p, [calls[p] EXCEPT !.kind = "deleteSession", !.pc = "awaitDelete"])
    /\ storageQueue' = Issued(p)
    /\ UNCHANGED <<_session, secret, _pendingStates, handlers, timers, widgetVars, providerVars>>

DeleteCompletes(p) ==
    /\ calls[p].kind = "deleteSession" /\ calls[p].pc = "awaitDelete" /\ Completes(p)
    /\ storageQueue' = Tail(storageQueue)
    /\ secret' = deleteSession
    /\ Becomes(p, Settle(calls[p], "deleted", ""))
    /\ UNCHANGED <<_session, _pendingStates, handlers, timers, widgetVars, providerVars>>

DeleteFails(p) ==
    /\ calls[p].kind = "deleteSession" /\ calls[p].pc = "awaitDelete" /\ Completes(p)
    /\ storageQueue' = Tail(storageQueue)
    /\ Becomes(p, Settle(calls[p], "deleteError", "DeleteError"))
    /\ UNCHANGED <<_session, secret, _pendingStates, handlers, timers, widgetVars, providerVars>>

\* ------------------------------------------------- login(), createSession()

\* Line 183: what a user cancellation rejects the race with.
CancellationRejection == "User Cancelled"

\* Mutant of TimeoutRejection: the timer rejects as the cancellation does.
TimeoutRejectionAsCancellation == CancellationRejection

\* Line 178: what the timer rejects the race with.
TimeoutRejection == "Cancelled"

EmptyString == Val("string", 0)

\* Mutant of handleUri: the query parameter is returned as it is.
handleUriUnchecked(encodedData) == encodedData

\* handleUri(uri), lines 218-226, on the uri's `data` query parameter.
handleUri(encodedData) == IF encodedData = undefined THEN EmptyString ELSE encodedData

\* `!encodedTokenData`, line 125.
Falsy(value) == value \in {undefined, EmptyString}

\* Mutant of RemovePending: the finally block removes nothing.
RemovePendingNothing(states, id) == states

\* Line 211: the finally block of the race.
RemovePending(states, id) == SelectSeq(states, LAMBDA n : n /= id)

\* decodeBase64 and JSON.parse, lines 240-241: throw on anything that is not
\* the base64 of a token pair's JSON.
Decodable(encodedTokenData) == encodedTokenData.t = "base64"
DecodedTokens(encodedTokenData) == EncodedCSTokenData(encodedTokenData.v)

\* Line 254: { ...data, ...tokens }.
getUserInfo(data, tokens) ==
    [user |-> data.user, waitlistPosition |-> data.waitlistPosition,
     access_token |-> tokens.access_token, refresh_token |-> tokens.refresh_token]

\* Mutant of Waitlisted: waitlistPosition >= 0.
WaitlistedFromZero(userInfo) ==
    userInfo.waitlistPosition.t = "num" /\ userInfo.waitlistPosition.v >= 0

\* Line 131: waitlistPosition > 0 (false for undefined).
Waitlisted(userInfo) ==
    userInfo.waitlistPosition.t = "num" /\ userInfo.waitlistPosition.v > 0

\* Lines 135-141: the session of a login by call n.
createdSession(n, userInfo) ==
    [id |-> generateUuid(n),
     accessToken |-> userInfo.access_token,
     refreshToken |-> userInfo.refresh_token,
     account |-> userInfo.user,
     waitlistPosition |-> userInfo.waitlistPosition]

\* Line 142: this._onDidAuthenticate.fire(session).
Fire(c) == [c EXCEPT !.fired = @ + 1]

\* Lines 131-133: notifyWaitlistPosition.
NotifyWaitlist(c, userInfo) ==
    IF Waitlisted(userInfo) THEN [c EXCEPT !.waitlistNotes = @ + 1] ELSE c

\* Line 169: the state id of the login attempt of call p.
stateId(p) == generateUuid(p)

\* createSession() -> login(): the progress task starts, records its state id
\* and opens the authorization URL (lines 169-173).
CreateSession(p) ==
    /\ CanStart(p)
    /\ _pendingStates' = Append(_pendingStates, stateId(p))
    /\ Becomes(p, [calls[p] EXCEPT !.kind = "createSession", !.pc = "awaitOpen"])
    /\ UNCHANGED <<_session, secret, handlers, timers, storageQueue, widgetVars, providerVars>>

\* openerService.open returned: the three arms of the race are set up
\* (lines 177-207).
OpenReturns(p) ==
    /\ calls[p].kind = "createSession" /\ calls[p].pc = "awaitOpen"
    /\ handlers' = Append(handlers, p)
    /\ timers' = timers \cup {p}
    /\ Becomes(p, [calls[p] EXCEPT !.pc = "racing"])
    /\ UNCHANGED <<_session, secret, _pendingStates, storageQueue, widgetVars, providerVars>>

\* openerService.open threw: line 173 is outside the try block.
OpenFails(p) ==
    /\ calls[p].kind = "createSession" /\ calls[p].pc = "awaitOpen"
    /\ Becomes(p, Settle(calls[p], "openError", "OpenError"))
    /\ UNCHANGED <<_session, secret, _pendingStates, handlers, timers, storageQueue,
                   widgetVars, providerVars>>

\* Mutant of Timeout: the timer fires without rejecting the race.
TimeoutNeverRejects(p) ==
    /\ p \in timers
    /\ timers' = timers \ {p}
    /\ settled' = Nothing
    /\ UNCHANGED <<_session, secret, _pendingStates, handlers, storageQueue, calls,
                   widgetVars, providerVars>>

\* Mutant of Timeout: the timer makes the call fail whenever it fires.
TimeoutAlwaysRejects(p) ==
    /\ p \in timers
    /\ timers' = timers \ {p}
    /\ Becomes(p, Settle(calls[p], "timeout", TimeoutRejection))
    /\ _pendingStates' = RemovePending(_pendingStates, stateId(p))
    /\ UNCHANGED <<_session, secret, handlers, storageQueue, widgetVars, providerVars>>

\* The 60 s timer of call p's login fires.  It rejects the race if no arm has
\* settled it yet; the rejection of a settled promise does nothing.
Timeout(p) ==
    /\ p \in timers
    /\ timers' = timers \ {p}
    /\ IF calls[p].pc = "racing"
       THEN /\ Becomes(p, Settle(calls[p], "timeout", TimeoutRejection))
            /\ _pendingStates' = RemovePending(_pendingStates, stateId(p))
       ELSE /\ settled' = Nothing
            /\ UNCHANGED <<calls, _pendingStates>>
    /\ UNCHANGED <<_session, secret, handlers, storageQueue, widgetVars, providerVars>>

\* The user dismisses the progress notification: cts.cancel() (line 214).  It
\* rejects the race if no arm has settled it yet; after the callback has won,
\* while createSession() goes on, the rejection does nothing.
Cancel(p) ==
    /\ calls[p].kind = "createSession"
    /\ calls[p].pc \in {"racing", "awaitProfile", "awaitSet"}
    /\ IF calls[p].pc = "racing"
       THEN /\ Becomes(p, Settle(calls[p], "cancelled", CancellationRejection))
            /\ _pendingStates' = RemovePending(_pendingStates, stateId(p))
       ELSE /\ settled' = Nothing
            /\ UNCHANGED <<calls, _pendingStates>>
    /\ UNCHANGED <<_session, secret, handlers, timers, storageQueue, widgetVars, providerVars>>

\* createSession() after login() resolved to tokenData (lines 125-129 and
\* getUserInfo up to its fetch).
AfterLogin(c, tokenData) ==
    LET d == [c EXCEPT !.login = tokenData]
    IN IF Falsy(tokenData)
       THEN Settle(d, "emptyCallback", "CodeStory login failure")
       ELSE IF ~Decodable(tokenData)
       THEN Settle(d, "decodeError", "DecodeError")
       ELSE [d EXCEPT !.pc = "awaitProfile", !.data = DecodedTokens(tokenData),
                      !.requests = @ + 1]

\* The `data` query parameter of a callback URI the browser may send: missing,
\* not decodable, or the encoded token pair issued for a login attempt whose
\* page was opened and whose handler is still registered.
CallbackData ==
    {undefined, Val("garbage", 0)}
    \cup {Base64(handlers[i]) : i \in 1..Len(handlers)}

\* urlService dispatches a callback URI: the first registered handler takes it
\* (handleURL, lines 189-199: resolve, dispose, return true).  Resolving a race
\* that has settled does nothing.
HandleURL(encodedData) ==
    /\ handlers /= <<>>
    /\ handlers' = Tail(handlers)
    /\ LET p == Head(handlers)
       IN IF calls[p].pc = "racing"
          THEN /\ Becomes(p, AfterLogin(calls[p], handleUri(encodedData)))
               /\ _pendingStates' = RemovePending(_pendingStates, stateId(p))
          ELSE /\ settled' = Nothing
               /\ UNCHANGED <<calls, _pendingStates>>
    /\ UNCHANGED <<_session, secret, timers, storageQueue, widgetVars, providerVars>>

\* Mutant of CreateProfileFails: the failed login also deletes the stored session.
CreateProfileFailsDeletes(p) ==
    /\ calls[p].kind = "createSession" /\ calls[p].pc = "awaitProfile"
    /\ Becomes(p, Settle(calls[p], "profileError", "ProfileFetchError"))
    /\ secret' = deleteSession
    /\ UNCHANGED <<_session, _pendingStates, handlers, timers, storageQueue,
                   widgetVars, providerVars>>

\* The profile request of getUserInfo fails or its body is no JSON.
CreateProfileFails(p) ==
    /\ calls[p].kind = "createSession" /\ calls[p].pc = "awaitProfile"
    /\ Becomes(p, Settle(calls[p], "profileError", "ProfileFetchError"))
    /\ UNCHANGED <<_session, secret, _pendingStates, handlers, timers, storageQueue,
                   widgetVars, providerVars>>

\* The profile endpoint answers with a JSON body: lines 130-143 up to the
\* awaited write of setSession.
CreateProfile(p) ==
    /\ calls[p].kind = "createSession" /\ calls[p].pc = "awaitProfile"
    /\ \E body \in ProfileBodies(calls[p].data.access_token) :
          LET userInfo == getUserInfo(body, calls[p].data)
              s == createdSession(p, userInfo)
          IN /\ _session' = s
             /\ Becomes(p, [Fire(NotifyWaitlist(calls[p], userInfo))
                               EXCEPT !.pc = "awaitSet", !.session = s])
    /\ storageQueue' = Issued(p)
    /\ UNCHANGED <<secret, _pendingStates, handlers, timers, widgetVars, providerVars>>

\* The write of setSession completes: createSession() returns the session.
CreateSetCompletes(p) ==
    /\ calls[p].kind = "createSession" /\ calls[p].pc = "awaitSet" /\ Completes(p)
    /\ storageQueue' = Tail(storageQueue)
    /\ secret' = setSession(calls[p].session)
    /\ Becomes(p, Settle(calls[p], "created", ""))
    /\ UNCHANGED <<_session, _pendingStates, handlers, timers, widgetVars, providerVars>>

\* The write fails: createSession() rejects (line 147 rethrows).
CreateSetFails(p) ==
    /\ calls[p].kind = "createSession" /\ calls[p].pc = "awaitSet" /\ Completes(p)
    /\ storageQueue' = Tail(storageQueue)
    /\ Becomes(p, Settle(calls[p], "setError", "SetError"))
    /\ UNCHANGED <<_session, secret, _pendingStates, handlers, timers, widgetVars, providerVars>>

\* ------------------------------------------- EditModelConfigurationWidget

\* The promise of call i has its listener on _onHide (lines 488, 512): the
\* listeners are those of the calls made since _onHide fired last.
Listening(i) == i > Len(promises) - onHide

\* Mutant of onHideFire: only the listener registered first is run.
onHideFireFirst ==
    [i \in DOMAIN promises |->
        IF onHide > 0 /\ i = Len(promises) - onHide + 1 THEN promises[i] + 1
        ELSE promises[i]]

\* this._onHide.fire(), line 658, runs every listener (lines 488-491,
\* 512-515): resolve(null) of its promise.
onHideFire ==
    [i \in DOMAIN promises |-> IF Listening(i) THEN promises[i] + 1 ELSE promises[i]]

\* Mutant of hide: the widget stays on screen.
hideStaysVisible ==
    /\ _isVisible' = _isVisible
    /\ saveButton' = TRUE
    /\ onHide' = 0
    /\ promises' = onHideFire

\* hide(), lines 653-659.  Firing _onHide runs every listener; each disposes
\* itself and resolves its promise.
hide ==
    /\ _isVisible' = FALSE
    /\ saveButton' = TRUE
    /\ onHide' = 0
    /\ promises' = onHideFire

\* add(providerItems), lines 459-493: the mode is set first, the entry only
\* when the widget is not on screen yet, and a listener of _onHide is
\* registered in both cases.
Add(openRouterConfigured) ==
    /\ onHide < MaxListeners
    /\ _isVisible \/ openings + providerOpenings < MaxOpenings
    /\ currentMode' = "add"
    /\ IF ~_isVisible
       THEN /\ _isVisible' = TRUE
            /\ openings' = openings + 1
            /\ initialModelItemEntry' = Some(defaultModelItemEntry(openRouterConfigured))
            /\ modelItemEntry' = Some(defaultModelItemEntry(openRouterConfigured))
            /\ openedBy' = "add"
       ELSE UNCHANGED <<_isVisible, initialModelItemEntry, modelItemEntry, openedBy, openings>>
    /\ onHide' = onHide + 1
    /\ promises' = Append(promises, 0)
    /\ saved' = NoSaved
    /\ UNCHANGED <<saveButton, slowModel, models, saves, serviceVars, providerVars>>

\* edit(entry, providerItems), lines 495-517.
Edit(entry) ==
    /\ onHide < MaxListeners
    /\ _isVisible \/ openings + providerOpenings < MaxOpenings
    /\ currentMode' = "edit"
    /\ IF ~_isVisible
       THEN /\ _isVisible' = TRUE
            /\ openings' = openings + 1
            /\ initialModelItemEntry' = Some(entry)
            /\ modelItemEntry' = Some(entry)
            /\ openedBy' = "edit"
       ELSE UNCHANGED <<_isVisible, initialModelItemEntry, modelItemEntry, openedBy, openings>>
    /\ onHide' = onHide + 1
    /\ promises' = Append(promises, 0)
    /\ saved' = NoSaved
    /\ UNCHANGED <<saveButton, slowModel, models, saves, serviceVars, providerVars>>

\* updateModelItemEntry(updatedModelItemEntry), lines 636-647.
updateModelItemEntry(updatedModelItem) ==
    /\ modelItemEntry' = Some(updatedModelItem)
    /\ saveButton' = (initialModelItemEntry /= Some(updatedModelItem))
    /\ saved' = NoSaved
    /\ UNCHANGED <<_isVisible, currentMode, initialModelItemEntry, onHide, promises, slowModel,
                   models, openedBy, openings, saves, serviceVars, providerVars>>

\* The user picks a provider (lines 529-544); the select box offers only the
\* providers that are configured (line 525).
SelectProvider ==
    /\ _isVisible
    /\ updateModelItemEntry([modelItemEntry[1] EXCEPT !.provider = TRUE])

\* The user types a model id (lines 551-559).
ChangeModelId(key) ==
    /\ _isVisible
    /\ updateModelItemEntry([modelItemEntry[1] EXCEPT !.key = key])

\* The user types a model name (lines 382-390).
ChangeModelName(name) ==
    /\ _isVisible
    /\ updateModelItemEntry([modelItemEntry[1] EXCEPT !.name = name])

\* The user changes the context length, the temperature or a field of the
\* provider configuration (lines 562-583, 595-605): the configuration
\* becomes complete or incomplete.
ChangeField(complete) ==
    /\ _isVisible
    /\ updateModelItemEntry([modelItemEntry[1] EXCEPT !.fields = complete])

\* A run of save() that is suspended at an await.
InProgress(s) == saves[s].pc \notin {"idle", "done"}

\* Escape, the close icon or Cancel (lines 350-353, 376, 439): hide().
Hide ==
    /\ _isVisible
    /\ hide
    /\ saves' = [s \in Saves |->
                    IF InProgress(s) THEN [saves[s] EXCEPT !.dismissed = TRUE]
                    ELSE saves[s]]
    /\ saved' = NoSaved
    /\ UNCHANGED <<currentMode, initialModelItemEntry, modelItemEntry, slowModel,
                   models, openedBy, openings, serviceVars, providerVars>>

\* save() calls a service and awaits the answer.
Awaits(s, runs, call) ==
    /\ saves' = [runs EXCEPT ![s].pc = call]
    /\ saved' = NoSaved

\* save() returns or throws: nothing is kept of the run but that it is over.
Returns(s, runs, outcome) ==
    /\ saves' = [t \in Saves |->
                    IF t = s THEN [NoSave(s) EXCEPT !.pc = "done"]
                    ELSE IF InProgress(t)
                    THEN [runs[t] EXCEPT !.others = @ \cup {outcome}]
                    ELSE runs[t]]
    /\ saved' = [runs[s] EXCEPT !.pc = "done", !.outcome = outcome]

\* Mutant of ShowsMessage: the Save button stays disabled.
ShowsMessageButtonDisabled(s, runs, outcome) ==
    /\ Returns(s, runs, outcome)
    /\ saveButton' = FALSE

\* save() puts a message into the message area, enables the Save button and
\* returns (lines 669-671, 676-678, 683-685, 691-693, 707-709).
ShowsMessage(s, runs, outcome) ==
    /\ Returns(s, runs, outcome)
    /\ saveButton' = TRUE

\* save(), lines 661-688, called by Enter (line 354) whether the Save button
\* is enabled or not, or by a click on the enabled Save button (line 446).
Save(s) ==
    /\ _isVisible
    /\ modelItemEntry /= null
    /\ saves[s].pc = "idle"
    /\ \A t \in Saves : t < s => saves[t].pc /= "idle"
    /\ LET updatedModelItem == modelItemEntry[1]
           during == {t \in Saves : InProgress(t)}
           run == [saves[s] EXCEPT !.initialModelItem = initialModelItemEntry,
                                   !.updatedModelItem = modelItemEntry,
                                   !.origin = IF during = {} THEN slowModel
                                              ELSE saves[CHOOSE t \in during : TRUE].origin,
                                   !.alone = (during = {}),
                                   !.opener = openedBy]
           runs == [t \in Saves |->
                       IF t = s THEN run
                       ELSE IF t \in during THEN [saves[t] EXCEPT !.alone = FALSE]
                       ELSE saves[t]]
       IN  IF ~isProviderItemConfigComplete(updatedModelItem)
           THEN ShowsMessage(s, runs, "incompleteProviderConfiguration")
           ELSE IF ~isModelItemConfigComplete(updatedModelItem)
           THEN ShowsMessage(s, runs, "incompleteConfiguration")
           ELSE IF checkIfDefaultModel(updatedModelItem.key)
           THEN ShowsMessage(s, runs, "cantEditDefaultModel")
           ELSE /\ Awaits(s, runs, "checkIfModelIdIsTaken")
                /\ saveButton' = FALSE
    /\ UNCHANGED <<_isVisible, currentMode, initialModelItemEntry, modelItemEntry, onHide, promises,
                   slowModel, models, openedBy, openings, serviceVars, providerVars>>

\* checkIfModelIdIsTaken(key) answers, lines 688-695.
CheckIfModelIdIsTaken(s) ==
    /\ saves[s].pc = "checkIfModelIdIsTaken"
    /\ LET key == saves[s].updatedModelItem[1].key
           isModelIdTaken == models[key] /= NoModel
       IN  IF isModelIdTaken /\ models[key] /= saves[s].initialModelItem[1].name
           THEN ShowsMessage(s, saves, "modelIdTaken")
           ELSE /\ Awaits(s, saves, "getValidatedModelSelectionSettings")
                /\ UNCHANGED saveButton
    /\ UNCHANGED <<_isVisible, currentMode, initialModelItemEntry, modelItemEntry, onHide, promises,
                   slowModel, models, openedBy, openings, serviceVars, providerVars>>

\* getValidatedModelSelectionSettings() answers with the selection as it is
\* now; the temporary selection is requested, lines 695-700.
GetValidatedModelSelectionSettings(s) ==
    /\ saves[s].pc = "getValidatedModelSelectionSettings"
    /\ Awaits(s, [saves EXCEPT ![s].previousSlowModel = slowModel], "editModelSelection")
    /\ UNCHANGED <<_isVisible, currentMode, initialModelItemEntry, modelItemEntry, saveButton,
                   onHide, promises, slowModel, models, openedBy, openings,
                   serviceVars, providerVars>>

\* editModelSelection('slowModel', updatedModelItem.key) completes and the
\* validation is requested, lines 700-702.
EditModelSelection(s) ==
    /\ saves[s].pc = "editModelSelection"
    /\ slowModel' = saves[s].updatedModelItem[1].key
    /\ Awaits(s, saves, "validateModelConfiguration")
    /\ UNCHANGED <<_isVisible, currentMode, initialModelItemEntry, modelItemEntry, saveButton,
                   onHide, promises, models, openedBy, openings, serviceVars, providerVars>>

\* validateModelConfiguration(modelSelectionSettings, token) answers and the
\* reset of the selection is requested, lines 702-704.
ValidateModelConfiguration(s, valid) ==
    /\ saves[s].pc = "validateModelConfiguration"
    /\ Awaits(s, [saves EXCEPT ![s].valid = valid], "resetSlowModel")
    /\ UNCHANGED <<_isVisible, currentMode, initialModelItemEntry, modelItemEntry, saveButton,
                   onHide, promises, slowModel, models, openedBy, openings,
                   serviceVars, providerVars>>

\* Mutant of resetSlowModel: the temporary selection is written again.
resetSlowModelToTemporary(run) == run.updatedModelItem[1].key

\* The selection the reset of line 704 is called with.
resetSlowModel(run) == run.previousSlowModel

\* Mutant of firstWrite: in edit mode the key is not renamed.
firstWriteWithoutRename(run) ==
    IF currentMode = "add"
    THEN [call |-> "addModelConfiguration", key |-> run.updatedModelItem[1].key]
    ELSE [call |-> "editModelConfiguration", key |-> run.updatedModelItem[1].key]

\* The write save() calls at lines 726-733, by the mode as it is now.
firstWrite(run) ==
    LET initialModelItem == run.initialModelItem[1]
        updatedModelItem == run.updatedModelItem[1]
    IN  IF currentMode = "add"
        THEN [call |-> "addModelConfiguration", key |-> updatedModelItem.key]
        ELSE IF initialModelItem.key /= updatedModelItem.key
        THEN [call |-> "updateModelConfigurationKey", key |-> initialModelItem.key]
        ELSE [call |-> "editModelConfiguration", key |-> updatedModelItem.key]

\* editModelSelection('slowModel', previousSlowModel) completes, lines
\* 704-733: a message, or hide() for an entry left as it was, or the write.
ResetSlowModel(s) ==
    /\ saves[s].pc = "resetSlowModel"
    /\ slowModel' = resetSlowModel(saves[s])
    /\ IF ~saves[s].valid
       THEN /\ ShowsMessage(s, saves, "modelConfigError")
            /\ UNCHANGED <<_isVisible, onHide, promises>>
       ELSE IF saves[s].initialModelItem = saves[s].updatedModelItem
       THEN /\ hide
            /\ Returns(s, saves, "unchanged")
       ELSE /\ Awaits(s, [saves EXCEPT ![s].written = <<firstWrite(saves[s])>>,
                                       ![s].mode = currentMode],
                      firstWrite(saves[s]).call)
            /\ UNCHANGED <<_isVisible, saveButton, onHide, promises>>
    /\ UNCHANGED <<currentMode, initialModelItemEntry, modelItemEntry, models, openedBy,
                   openings, serviceVars, providerVars>>

\* addModelConfiguration(key, lmItem) completes; the model is selected,
\* lines 727, 736.
AddModelConfiguration(s) ==
    /\ saves[s].pc = "addModelConfiguration"
    /\ models' = [models EXCEPT ![saves[s].updatedModelItem[1].key] =
                                   saves[s].updatedModelItem[1].name]
    /\ Awaits(s, saves, "selectModel")
    /\ UNCHANGED <<_isVisible, currentMode, initialModelItemEntry, modelItemEntry, saveButton,
                   onHide, promises, slowModel, openedBy, openings, serviceVars, providerVars>>

\* updateModelConfigurationKey(oldKey, newKey) completes;
\* editModelConfiguration is called, lines 729-730.
UpdateModelConfigurationKey(s) ==
    /\ saves[s].pc = "updateModelConfigurationKey"
    /\ LET oldKey == saves[s].initialModelItem[1].key
           newKey == saves[s].updatedModelItem[1].key
       IN  /\ models' = [key \in ModelKeys |->
                            IF key = newKey THEN models[oldKey]
                            ELSE IF key = oldKey THEN NoModel
                            ELSE models[key]]
           /\ Awaits(s, [saves EXCEPT ![s].written =
                            Append(@, [call |-> "editModelConfiguration", key |-> newKey])],
                     "editModelConfiguration")
    /\ UNCHANGED <<_isVisible, currentMode, initialModelItemEntry, modelItemEntry, saveButton,
                   onHide, promises, slowModel, openedBy, openings, serviceVars, providerVars>>

\* editModelConfiguration(key, lmItem) completes; the model is selected,
\* lines 730, 732, 736.
EditModelConfiguration(s) ==
    /\ saves[s].pc = "editModelConfiguration"
    /\ models' = [models EXCEPT ![saves[s].updatedModelItem[1].key] =
                                   saves[s].updatedModelItem[1].name]
    /\ Awaits(s, saves, "selectModel")
    /\ UNCHANGED <<_isVisible, currentMode, initialModelItemEntry, modelItemEntry, saveButton,
                   onHide, promises, slowModel, openedBy, openings, serviceVars, providerVars>>

\* editModelSelection('slowModel', updatedModelItem.key) completes, lines
\* 736-739: the Save button is enabled and the widget hidden.
SelectModel(s) ==
    /\ saves[s].pc = "selectModel"
    /\ slowModel' = saves[s].updatedModelItem[1].key
    /\ hide
    /\ Returns(s, saves, "saved")
    /\ UNCHANGED <<currentMode, initialModelItemEntry, modelItemEntry, models, openedBy,
                   openings, serviceVars, providerVars>>

\* The service call that save() awaits rejects: save() throws at that await.
CallRejects(s) ==
    /\ InProgress(s)
    /\ Returns(s, saves, "threw")
    /\ UNCHANGED <<_isVisible, currentMode, initialModelItemEntry, modelItemEntry, saveButton,
                   onHide, promises, slowModel, models, openedBy, openings,
                   serviceVars, providerVars>>

\* ---------------------------------------- EditProviderConfigurationWidget

\* The promise of call i has its listener on _onHide (line 869).
ProviderListening(i) == i > Len(providerPromises) - providerOnHide

\* this._onHide.fire(), line 908, runs every listener (lines 869-872).
providerOnHideFire ==
    [i \in DOMAIN providerPromises |->
        IF ProviderListening(i) THEN providerPromises[i] + 1 ELSE providerPromises[i]]

\* hide(), lines 904-909.
providerHide ==
    /\ providerVisible' = FALSE
    /\ providerOnHide' = 0
    /\ providerPromises' = providerOnHideFire

\* edit(entry), lines 836-874.
ProviderEdit(entry) ==
    /\ providerOnHide < MaxListeners
    /\ providerVisible \/ openings + providerOpenings < MaxOpenings
    /\ IF ~providerVisible
       THEN /\ providerVisible' = TRUE
            /\ initialProviderItemEntry' = Some(entry)
            /\ providerItemEntry' = Some(entry)
            /\ providerOpenings' = providerOpenings + 1
       ELSE UNCHANGED <<providerVisible, initialProviderItemEntry, providerItemEntry,
                        providerOpenings>>
    /\ providerOnHide' = providerOnHide + 1
    /\ providerPromises' = Append(providerPromises, 0)
    /\ providerSaved' = NoProviderSaved
    /\ UNCHANGED <<providerSaveButton, providers, providerSaves, serviceVars, widgetVars>>

\* Mutant of ProviderConfigEquals: no configuration counts as unchanged.
ProviderConfigNeverEquals(initial, updated) == FALSE

\* equals(initialProviderConfig, updatedProviderConfig), lines 887-889, 913-915.
ProviderConfigEquals(initial, updated) ==
    getProviderConfig(initial) = getProviderConfig(updated)

\* The user types into the field (lines 856-864): updateProviderItemEntry,
\* lines 884-895.
ChangeProviderField(value) ==
    /\ providerVisible
    /\ providerItemEntry' = Some([providerItemEntry[1] EXCEPT !.apiKey = value])
    /\ providerSaveButton' =
          ~ProviderConfigEquals(initialProviderItemEntry[1], providerItemEntry'[1])
    /\ providerSaved' = NoProviderSaved
    /\ UNCHANGED <<providerVisible, initialProviderItemEntry, providerOnHide,
                   providerPromises, providers, providerOpenings, providerSaves,
                   serviceVars, widgetVars>>

\* Escape, the close icon or Cancel (lines 778-779, 791, 808): hide().
ProviderHide ==
    /\ providerVisible
    /\ providerHide
    /\ providerSaved' = NoProviderSaved
    /\ UNCHANGED <<initialProviderItemEntry, providerItemEntry, providerSaveButton,
                   providers, providerOpenings, providerSaves, serviceVars, widgetVars>>

\* save(), lines 911-919, called by Enter (line 781) or by a click on the
\* enabled Save button (line 816): it returns for a configuration left as
\* it was and calls editProviderConfiguration otherwise.
ProviderSave(s) ==
    /\ providerVisible
    /\ providerItemEntry /= null
    /\ providerSaves[s].pc = "idle"
    /\ \A t \in Saves : t < s => providerSaves[t].pc /= "idle"
    /\ LET providerItem == providerItemEntry[1]
           run == [providerSaves[s] EXCEPT !.initial = initialProviderItemEntry,
                                           !.entry = providerItemEntry]
       IN  IF ProviderConfigEquals(initialProviderItemEntry[1], providerItem)
           THEN /\ providerSaves' = [providerSaves EXCEPT ![s].pc = "done"]
                /\ providerSaved' = [run EXCEPT !.pc = "done", !.outcome = "unchanged"]
           ELSE /\ providerSaves' =
                      [providerSaves EXCEPT ![s] =
                          [run EXCEPT !.pc = "editProviderConfiguration",
                                      !.written =
                                          <<[type |-> providerItem.type,
                                             config |-> getProviderConfig(providerItem)]>>]]
                /\ providerSaved' = NoProviderSaved
    /\ UNCHANGED <<providerVisible, initialProviderItemEntry, providerItemEntry,
                   providerSaveButton, providerOnHide, providerPromises, providers,
                   providerOpenings, serviceVars, widgetVars>>

\* editProviderConfiguration(type, providerItem) completes, lines 919-926:
\* hide().
EditProviderConfiguration(s) ==
    /\ providerSaves[s].pc = "editProviderConfiguration"
    /\ providers' = [providers EXCEPT ![providerSaves[s].written[1].type] =
                                         providerSaves[s].written[1].config.apiKey]
    /\ providerHide
    /\ providerSaves' = [providerSaves EXCEPT ![s] = [NoProviderSave(s) EXCEPT !.pc = "done"]]
    /\ providerSaved' = [providerSaves[s] EXCEPT !.pc = "done", !.outcome = "saved"]
    /\ UNCHANGED <<initialProviderItemEntry, providerItemEntry, providerSaveButton,
                   providerOpenings, serviceVars, widgetVars>>

\* editProviderConfiguration rejects: save() throws at line 919.
EditProviderConfigurationRejects(s) ==
    /\ providerSaves[s].pc = "editProviderConfiguration"
    /\ providerSaves' = [providerSaves EXCEPT ![s] = [NoProviderSave(s) EXCEPT !.pc = "done"]]
    /\ providerSaved' = [providerSaves[s] EXCEPT !.pc = "done", !.outcome = "threw"]
    /\ UNCHANGED <<providerVisible, initialProviderItemEntry, providerItemEntry,
                   providerSaveButton, providerOnHide, providerPromises, providers,
                   providerOpenings, serviceVars, widgetVars>>

\* ------------------------------------------------------------ specification

Next ==
    \/ InitializeLoad
    \/ \E p \in Calls : RefreshTokens(p)
    \/ \E p \in Procs : RefreshFails(p)
    \/ \E p \in Procs : RefreshNotOk(p)
    \/ \E p \in Procs : RefreshOk(p)
    \/ \E p \in Procs : RefreshProfileFails(p)
    \/ \E p \in Procs : RefreshProfile(p)
    \/ \E p \in Procs : RefreshSetCompletes(p)
    \/ \E p \in Procs : RefreshSetFails(p)
    \/ \E p \in Procs : RefreshDeleteCompletes(p)
    \/ \E p \in Procs : RefreshDeleteFails(p)
    \/ \E p \in Calls : DeleteSession(p)
    \/ \E p \in Calls : DeleteCompletes(p)
    \/ \E p \in Calls : DeleteFails(p)
    \/ \E p \in Calls : CreateSession(p)
    \/ \E p \in Calls : OpenReturns(p)
    \/ \E p \in Calls : OpenFails(p)
    \/ \E p \in Calls : Timeout(p)
    \/ \E p \in Calls : Cancel(p)
    \/ \E encodedData \in CallbackData : HandleURL(encodedData)
    \/ \E p \in Calls : CreateProfileFails(p)
    \/ \E p \in Calls : CreateProfile(p)
    \/ \E p \in Calls : CreateSetCompletes(p)
    \/ \E p \in Calls : CreateSetFails(p)

Spec == Init /\ [][Next]_vars

\* What the event loop and the services awaited guarantee: a timer that is set
\* fires; openerService.open, a fetch and a secret-storage operation each come
\* back, with a result or with an error.  Nothing makes a callback arrive or
\* the user cancel.
StorageAnswers ==
    \/ InitializeLoad
    \/ \E p \in Procs :
          \/ RefreshSetCompletes(p) \/ RefreshSetFails(p)
          \/ RefreshDeleteCompletes(p) \/ RefreshDeleteFails(p)
    \/ \E p \in Calls :
          \/ DeleteCompletes(p) \/ DeleteFails(p)
          \/ CreateSetCompletes(p) \/ CreateSetFails(p)

Fairness ==
    /\ WF_vars(StorageAnswers)
    /\ \A p \in Calls :
          /\ WF_vars(Timeout(p))
          /\ WF_vars(OpenReturns(p) \/ OpenFails(p))
          /\ WF_vars(CreateProfile(p) \/ CreateProfileFails(p))

SpecLive == Spec /\ Fairness

\* The widget as constructed, over a model selection; the service is left
\* as constructed.
WidgetInit ==
    /\ WidgetConstructed
    /\ ProviderConstructed
    /\ slowModel = "default"
    /\ models \in ModelSelections
    /\ _session = undefined
    /\ secret = undefined
    /\ _pendingStates = <<>>
    /\ handlers = <<>>
    /\ timers = {}
    /\ storageQueue = <<0>>
    /\ calls = [p \in Procs |->
                  IF p = 0 THEN [NoCall(p) EXCEPT !.kind = "initialize", !.pc = "awaitGet"]
                  ELSE NoCall(p)]
    /\ settled = Nothing

WidgetNext ==
    \/ \E openRouterConfigured \in BOOLEAN : Add(openRouterConfigured)
    \/ \E entry \in ListedEntries : Edit(entry)
    \/ SelectProvider
    \/ \E key \in TypedKeys : ChangeModelId(key)
    \/ \E name \in TypedNames : ChangeModelName(name)
    \/ \E complete \in TypedFields : ChangeField(complete)
    \/ Hide
    \/ \E s \in Saves : Save(s)
    \/ \E s \in Saves : CheckIfModelIdIsTaken(s)
    \/ \E s \in Saves : GetValidatedModelSelectionSettings(s)
    \/ \E s \in Saves : EditModelSelection(s)
    \/ \E s \in Saves, valid \in BOOLEAN : ValidateModelConfiguration(s, valid)
    \/ \E s \in Saves : ResetSlowModel(s)
    \/ \E s \in Saves : AddModelConfiguration(s)
    \/ \E s \in Saves : UpdateModelConfigurationKey(s)
    \/ \E s \in Saves : EditModelConfiguration(s)
    \/ \E s \in Saves : SelectModel(s)
    \/ \E s \in Saves : CallRejects(s)

SpecWidget == WidgetInit /\ [][WidgetNext]_vars

ProviderNext ==
    \/ \E entry \in ListedProviders : ProviderEdit(entry)
    \/ \E value \in TypedApiKeys : ChangeProviderField(value)
    \/ ProviderHide
    \/ \E s \in Saves : ProviderSave(s)
    \/ \E s \in Saves : EditProviderConfiguration(s)
    \/ \E s \in Saves : EditProviderConfigurationRejects(s)

\* Both widgets.
WidgetsNext ==
    \/ WidgetNext
    \/ ProviderNext

SpecWidgets == WidgetInit /\ [][WidgetsNext]_vars

\* ------------------------------------------------------------------ claims

Range(seq) == {seq[i] : i \in 1..Len(seq)}

IsCreate(c) == c.kind = "createSession"
Rejected(c) == c.error /= ""

\* The tokens of a session come from one response.
TokensPaired(session) == session.accessToken.v = session.refreshToken.v

\* C1: in the state in which setSession(S) has completed, getSession() returns
\* S: every key of S, whole.
C1_SetThenGet ==
    settled.outcome \in {"created", "refreshed"} => getSession = settled.session

C1_Witness ==
    /\ settled.outcome = "refreshed"
    /\ settled.session.account = undefined
    /\ getSession = settled.session

\* C2: in the state in which deleteSession() has completed, getSession()
\* returns undefined.
C2_DeleteThenGet == settled.outcome = "deleted" => getSession = undefined

C2_Witness == settled.outcome = "deleted" /\ _session /= undefined

C4_StoredAfterRefresh ==
    settled.outcome = "refreshed" =>
        /\ getSession = settled.session
        /\ getSession.accessToken = EncodedCSTokenData(settled.call).access_token
        /\ getSession.refreshToken = EncodedCSTokenData(settled.call).refresh_token
        /\ \E body \in ProfileBodies(getSession.accessToken) :
              /\ getSession.account = body.user
              /\ getSession.waitlistPosition = body.waitlistPosition

C4_NeverMixed ==
    /\ getSession /= undefined => TokensPaired(getSession)
    /\ _session /= undefined => TokensPaired(_session)

C4_Assembles(p) ==
    IsRefresh(p) /\ calls[p].pc = "awaitProfile" /\ calls'[p].pc = "awaitSet"

C4_RefreshKeepsIdentifier ==
    [][\A p \in Procs : C4_Assembles(p) =>
            /\ _session'.id = _session.id
            /\ calls'[p].session = _session']_vars

C4_Refresh == [](C4_StoredAfterRefresh /\ C4_NeverMixed) /\ C4_RefreshKeepsIdentifier

C4_Witness ==
    /\ settled.outcome = "refreshed"
    /\ settled.call = 2
    /\ getSession.id = generateUuid(1)

\* C5: a login attempt that ended by cancellation, by timeout or by a callback
\* has removed its state id from _pendingStates.
C5_AfterRace(c) == IsCreate(c) /\ c.pc \in {"awaitProfile", "awaitSet", "done"}
                      /\ c.outcome /= "openError"

C5_PendingRemoved ==
    /\ C5_AfterRace(settled) => stateId(settled.call) \notin Range(_pendingStates)
    /\ \A p \in Calls :
          C5_AfterRace(calls[p]) /\ calls[p].pc /= "done" =>
              stateId(p) \notin Range(_pendingStates)

C5_Witness ==
    /\ settled.outcome = "cancelled"
    /\ \E p \in Calls : calls[p].pc = "racing" /\ stateId(p) \in Range(_pendingStates)

\* C6: a login the timer ends makes createSession() fail with the timer's
\* rejection, which is not the cancellation's; the call has not fired
\* onDidAuthenticate and has not called setSession.
C6_Timeout ==
    settled.outcome = "timeout" =>
        /\ IsCreate(settled) /\ Rejected(settled)
        /\ settled.error = TimeoutRejection
        /\ settled.error /= CancellationRejection
        /\ settled.fired = 0
        /\ settled.session = undefined

C6_TimeoutStep ==
    [][settled'.outcome = "timeout" => secret' = secret /\ _session' = _session]_vars

C6_TimeoutFails == []C6_Timeout /\ C6_TimeoutStep

C6_Witness == settled.outcome = "timeout" /\ settled.error = "Cancelled"

\* C7: a callback without `data` that settles the race makes login() resolve to
\* the empty string and createSession() fail; the step changes neither the
\* secret nor the cached session, and the call has fired nothing and has not
\* called setSession.
C7_EmptyCallback ==
    [][settled'.outcome = "emptyCallback" =>
            /\ settled'.login = EmptyString
            /\ IsCreate(settled') /\ Rejected(settled')
            /\ settled'.fired = 0
            /\ settled'.session = undefined
            /\ secret' = secret /\ _session' = _session]_vars

C7_Witness == settled.outcome = "emptyCallback" /\ settled.error = "CodeStory login failure"

\* C8: onDidAuthenticate has fired once in a createSession() that returned,
\* not at all in a createSession() that threw, and never in refreshTokens().
C8_FiredOncePerSuccess ==
    /\ IsCreate(settled) => settled.fired = (IF Rejected(settled) THEN 0 ELSE 1)
    /\ settled.kind \in {"refreshTokens", "initialize"} => settled.fired = 0

\* C9: refreshTokens() called while getSession() returns undefined returns at
\* once: no request, no notification, secret and cached session unchanged.
C9_RefreshNoOpWhenUnauthenticated ==
    [][\A p \in Calls :
          RefreshTokens(p) /\ getSession = undefined =>
              /\ settled'.outcome = "noSession"
              /\ settled'.requests = 0 /\ settled'.errorNotes = 0
              /\ secret' = secret /\ _session' = _session]_vars

\* C10: only a createSession() that succeeds takes the secret from absent to
\* present.
C10_OnlyCreateAuthenticates ==
    [][secret = undefined /\ secret' /= undefined => settled'.outcome = "created"]_vars

\* C11: a createSession() that fails by timeout, cancellation, empty or
\* undecodable callback payload or profile fetch error has not called
\* setSession, and no step of a createSession() call other than the completion
\* of its setSession write changes the secret.
C11_FailedWithoutWrite ==
    {"timeout", "cancelled", "emptyCallback", "decodeError", "profileError"}

C11_StepOfCreate(p) ==
    /\ calls'[p] /= calls[p]
    /\ IsCreate(calls[p]) \/ IsCreate(calls'[p]) \/ IsCreate(settled')

C11_FailedCreateKeepsSecret ==
    [][\A p \in Calls :
          C11_StepOfCreate(p) =>
              /\ secret' /= secret => settled'.outcome = "created"
              /\ settled'.outcome \in C11_FailedWithoutWrite =>
                    /\ Rejected(settled')
                    /\ settled'.session = undefined
                    /\ secret' = secret]_vars

C11_Witness ==
    /\ IsCreate(settled)
    /\ settled.outcome = "profileError"
    /\ getSession = PersistedSession

\* C12: every refreshTokens() call, and the refresh of initialize(), resolves:
\* whatever path it ended on, its promise is not rejected.
C12_RefreshNeverThrows ==
    settled.kind \in {"refreshTokens", "initialize"} => ~Rejected(settled)

C12_Witness ==
    /\ settled.kind = "refreshTokens"
    /\ settled.outcome = "rejectedDeleteError"
    /\ settled.error = ""

\* C13: initialize() reads the persisted session into the cache; if there is
\* one it POSTs that session's refresh token, once; if there is none it returns
\* without a request and the service has no session.  No later step of
\* initialize() POSTs a second refresh request.
C13_Load ==
    calls[0].pc = "awaitGet" /\ calls'[0] /= calls[0] =>
        IF secret = undefined
        THEN /\ settled'.kind = "initialize" /\ settled'.outcome = "noSession"
             /\ settled'.requests = 0 /\ settled'.posted = <<>>
             /\ _session' = undefined /\ secret' = undefined
        ELSE /\ _session' = JSONparse(secret)
             /\ calls'[0].pc = "awaitRefresh"
             /\ calls'[0].posted = <<JSONparse(secret).refreshToken>>

C13_OneRefresh ==
    /\ Len(calls[0].posted) <= 1
    /\ settled.kind = "initialize" => Len(settled.posted) <= 1

C13_InitializeRefreshesOnce == [][C13_Load]_vars /\ []C13_OneRefresh

C13_Witness ==
    /\ settled.kind = "initialize"
    /\ settled.outcome = "refreshed"
    /\ settled.posted = <<PersistedSession.refreshToken>>

\* C14: the token pair a createSession() call holds after its login resolved is
\* the pair issued for its own login attempt: a callback for another attempt
\* never delivers its payload to this call.
C14_OwnPayload(c) ==
    IsCreate(c) /\ c.data /= undefined => c.data = EncodedCSTokenData(c.call)

C14_CallbackSettlesOwnAttempt ==
    /\ C14_OwnPayload(settled)
    /\ \A p \in Calls : C14_OwnPayload(calls[p])

\* C15: a createSession() call whose profile request was answered with an error
\* body (no `user` in it) does not go on to fire onDidAuthenticate and to call
\* setSession.
C15_Answered(c) == IsCreate(c) /\ c.session /= undefined

C15_ProfileFailureFails ==
    /\ C15_Answered(settled) => settled.session.account /= undefined
    /\ \A p \in Calls :
          C15_Answered(calls[p]) =>
              calls[p].session.account /= undefined

\* C17: whenever no login() is in progress, _pendingStates is empty.
C17_LoginInProgress == \E p \in Calls : calls[p].pc \in {"awaitOpen", "racing"}

C17_PendingEmptyWhenIdle == ~C17_LoginInProgress => _pendingStates = <<>>

\* C18: when login() has been settled by the timer or by cancellation, the URL
\* handler of that attempt is no longer registered.
C18_HandlerDisposed ==
    settled.outcome \in {"timeout", "cancelled"} =>
        settled.call \notin Range(handlers)

\* C20: in the step in which createSession() fires onDidAuthenticate,
\* getSession() returns the session the event carries.
C20_PersistedBeforeEvent ==
    [][\A p \in Calls :
          calls'[p].fired > calls[p].fired => getSession' = calls'[p].session]_vars

\* C19: the first arm to settle the race decides.  A callback handed to the
\* handler of an attempt that is no longer racing, and a timer that fires for
\* such an attempt, change no call, settle nothing, and change neither the
\* secret nor the cached session: no session is persisted and no event fired
\* for an attempt that timed out or was cancelled, and a login the callback won
\* goes on as it was.
C19_NoEffect ==
    /\ calls' = calls /\ settled' = Nothing
    /\ secret' = secret /\ _session' = _session
    /\ _pendingStates' = _pendingStates

C19_LateCallback ==
    /\ handlers /= <<>> /\ handlers' = Tail(handlers)
    /\ calls[Head(handlers)].pc /= "racing"

C19_LateTimer(p) == p \in timers /\ p \notin timers' /\ calls[p].pc /= "racing"

C19_FirstArmDecides ==
    [][/\ C19_LateCallback => C19_NoEffect
       /\ \A p \in Calls : C19_LateTimer(p) => C19_NoEffect]_vars

C19_Witness ==
    \E p \in Calls :
        /\ IsCreate(calls[p]) /\ calls[p].pc = "awaitSet"
        /\ p \notin timers /\ p \notin Range(handlers)
        /\ calls[p].fired = 1

\* C16: a login whose authorization URL has been opened settles, callback or
\* not, cancellation or not; and every createSession() call returns or throws.
C16_LoginSettles ==
    \A p \in Calls : calls[p].pc = "racing" ~> calls[p].pc /= "racing"

C16_CreateSessionSettles ==
    \A p \in Calls : IsCreate(calls[p]) ~> calls[p].pc = "done"

C21_ProfileAnswered(c) ==
    c.kind \in {"initialize", "refreshTokens"} /\ c.session /= undefined

C21_ProfileFailureKeepsSession ==
    /\ C21_ProfileAnswered(settled) => settled.session.account /= undefined
    /\ \A p \in Procs :
          C21_ProfileAnswered(calls[p]) => calls[p].session.account /= undefined

\* C22: a refresh has posted one error notification exactly when the refresh
\* endpoint answered with a non-success status, and none otherwise; only such a
\* refresh deletes the secret, and it has notified before it deletes; a refresh
\* that ends on another failure leaves the secret as it is.
C22_RejectedOutcomes == {"rejected", "rejectedDeleteError"}

C22_OtherFailures ==
    {"networkError", "badJson", "profileError", "typeError", "setError"}

C22_Notes(c) ==
    c.kind \in {"initialize", "refreshTokens"} =>
        c.errorNotes =
            (IF c.pc = "awaitDelete" \/ c.outcome \in C22_RejectedOutcomes
             THEN 1 ELSE 0)

C22_NotifiedIffRejected ==
    /\ C22_Notes(settled)
    /\ \A p \in Procs : C22_Notes(calls[p])

C22_StepOfRefresh(p) == IsRefresh(p) /\ calls'[p] /= calls[p]

C22_DeletesOnlyWhenRejected ==
    [][\A p \in Procs :
          C22_StepOfRefresh(p) =>
              /\ secret /= undefined /\ secret' = undefined =>
                    /\ calls[p].errorNotes = 1
                    /\ settled'.outcome = "rejected"
              /\ settled'.outcome \in C22_OtherFailures => secret' = secret]_vars

C22_OnlyRejectedNotifiesAndDeletes ==
    []C22_NotifiedIffRejected /\ C22_DeletesOnlyWhenRejected

C22_Witness ==
    /\ settled.outcome = "rejected" /\ settled.errorNotes = 1
    /\ secret = undefined

\* C23: a refresh changes the secret only while the secret holds the session
\* it set out to refresh, never while it holds the session a createSession()
\* has stored since.
C23_CreatedSince(p) ==
    \E q \in Calls :
        /\ getSession.id = generateUuid(q)
        /\ getSession.refreshToken = EncodedCSTokenData(q).refresh_token
        /\ calls[p].posted /= <<getSession.refreshToken>>

C23_RefreshKeepsNewerSession ==
    [][\A p \in Procs :
          IsRefresh(p) /\ calls'[p] /= calls[p]
                       /\ secret /= undefined /\ C23_CreatedSince(p)
              => secret' = secret]_vars

\* C24: a createSession() that has returned has posted the waitlist
\* notification once if the session's waitlist position is greater than 0 and
\* not at all otherwise; either way it has fired onDidAuthenticate once and
\* the stored session carries that waitlist position.
C24_WaitlistNotes(session) ==
    IF session.waitlistPosition.t = "num" /\ session.waitlistPosition.v > 0
    THEN 1 ELSE 0

C24_WaitlistNotification ==
    settled.outcome = "created" =>
        /\ settled.waitlistNotes = C24_WaitlistNotes(settled.session)
        /\ settled.fired = 1
        /\ getSession.waitlistPosition = settled.session.waitlistPosition

C24_Witness ==
    /\ settled.outcome = "created"
    /\ settled.session.waitlistPosition = Val("num", 3)
    /\ settled.waitlistNotes = 1

\* C25: a save() that ran with no other save() in progress and ended with
\* the validation reported invalid leaves the slowModel selection as it was
\* when that save() was called.
C25_InvalidSaveRestoresSlowModel ==
    saved.outcome = "modelConfigError" /\ saved.alone => slowModel = saved.origin

C25_Witness ==
    /\ saved.outcome = "modelConfigError"
    /\ saved.alone
    /\ saved.updatedModelItem[1].key /= saved.origin
    /\ slowModel = saved.origin

\* C26: when save() returns after its writes, it has called a configuration
\* write, the slowModel selection is the key of the saved model, the widget
\* is hidden and the Save button is enabled; if no other save() ran during
\* it, the model is configured under that key with the name saved.
C26_Saved ==
    saved.outcome = "saved" =>
        /\ saved.initialModelItem /= saved.updatedModelItem
        /\ saved.written /= <<>>
        /\ saved.alone =>
              models[saved.updatedModelItem[1].key] = saved.updatedModelItem[1].name
        /\ slowModel = saved.updatedModelItem[1].key
        /\ ~_isVisible
        /\ saveButton

C26_Witness ==
    /\ saved.outcome = "saved"
    /\ saved.alone
    /\ saved.updatedModelItem[1].key = "new"
    /\ saved.origin = "default"
    /\ slowModel = "new"
    /\ models["new"] = saved.updatedModelItem[1].name

\* C27: a save() that ends with one of the validation messages has called no
\* configuration write and leaves the Save button enabled; the step that
\* shows the message does not hide the widget, which is on screen if nothing
\* else has hidden it during the save().
C27_Messages ==
    {"incompleteProviderConfiguration", "incompleteConfiguration",
     "cantEditDefaultModel", "modelIdTaken", "modelConfigError"}

C27_NoWriteButtonEnabled ==
    saved.outcome \in C27_Messages =>
        /\ saved.written = <<>>
        /\ saveButton
        /\ saved.alone /\ ~saved.dismissed => _isVisible

C27_MessageKeepsWidget ==
    [][saved'.outcome \in C27_Messages => _isVisible' = _isVisible]_vars

C27_MessageEndsWithoutWrite == []C27_NoWriteButtonEnabled /\ C27_MessageKeepsWidget

C27_Witness ==
    /\ saved.outcome = "modelIdTaken"
    /\ saved.updatedModelItem[1].key = "new"
    /\ models["new"] = "B"
    /\ _isVisible
    /\ saveButton

\* C28: a call of add() or edit() while the widget is on screen leaves the
\* entry being edited as it is, and a save() adds a model configuration
\* exactly if the widget was made visible by add().
C28_CallWhileVisibleKeepsEntry ==
    [][_isVisible /\ onHide' = onHide + 1 =>
          /\ initialModelItemEntry' = initialModelItemEntry
          /\ modelItemEntry' = modelItemEntry]_vars

C28_SaveUsesOpeningMode ==
    \A s \in Saves :
        saves[s].written /= <<>> =>
            (Head(saves[s].written).call = "addModelConfiguration"
                <=> saves[s].opener = "add")

C28_ModeOfOpeningCall == []C28_SaveUsesOpeningMode /\ C28_CallWhileVisibleKeepsEntry

\* C29: once the user has hidden the widget during a save(), no step of that
\* save() calls a configuration write, changes the models configured or
\* changes the slowModel selection.
C29_Writes ==
    {"addModelConfiguration", "updateModelConfigurationKey", "editModelConfiguration"}

C29_DismissedSaveChangesNothing ==
    [][\A s \in Saves :
          saves[s].dismissed /\ saves'[s].pc /= saves[s].pc
              => /\ saves'[s].pc \notin C29_Writes
                 /\ models' = models
                 /\ slowModel' = slowModel]_vars

\* C30: when two runs of save() that were in progress at the same time have
\* both ended with the validation reported invalid, the slowModel selection
\* is the one from before the first of them was called.
C30_OverlappingInvalidSavesRestore ==
    /\ saved.outcome = "modelConfigError"
    /\ saved.others = {"modelConfigError"}
    /\ \A s \in Saves : ~InProgress(s)
    => slowModel = saved.origin

\* C31: the promise of an add() or edit() call, of either widget, is pending
\* from the call on and only while the widget is on screen; the step that
\* hides the widget calls the resolve of every pending promise, those of
\* calls made while the widget was on screen included, and no other step
\* calls a resolve, so that each promise is resolved once.
C31_Step(made, made2, visible, visible2) ==
    /\ Len(made2) >= Len(made)
    /\ \A i \in DOMAIN made2 :
          made2[i] = IF i \notin DOMAIN made THEN 0
                     ELSE IF visible /\ ~visible2 /\ made[i] = 0 THEN 1
                     ELSE made[i]

C31_PendingOnlyWhileVisible ==
    /\ \A i \in DOMAIN promises : promises[i] = 0 => _isVisible
    /\ \A i \in DOMAIN providerPromises : providerPromises[i] = 0 => providerVisible

C31_ResolvedByHide ==
    [][/\ C31_Step(promises, promises', _isVisible, _isVisible')
       /\ C31_Step(providerPromises, providerPromises', providerVisible, providerVisible')]_vars

C31_PromisesResolveAtHide == []C31_PendingOnlyWhileVisible /\ C31_ResolvedByHide

C31_Witness ==
    /\ promises = <<1, 1>>
    /\ ~_isVisible

\* C32: a save() that returns after its writes has called, in add mode,
\* addModelConfiguration for the new key and nothing else; in edit mode with
\* the key left as it was, editModelConfiguration and nothing else; in edit
\* mode with a changed key, updateModelConfigurationKey for the old key and
\* then editModelConfiguration for the new key, the latter in the step in
\* which the rename completes, and no write under the old key.
C32_Written(run) ==
    LET oldKey == run.initialModelItem[1].key
        newKey == run.updatedModelItem[1].key
    IN  IF run.mode = "add"
        THEN <<[call |-> "addModelConfiguration", key |-> newKey]>>
        ELSE IF oldKey /= newKey
        THEN <<[call |-> "updateModelConfigurationKey", key |-> oldKey],
               [call |-> "editModelConfiguration", key |-> newKey]>>
        ELSE <<[call |-> "editModelConfiguration", key |-> newKey]>>

C32_WritesByMode ==
    /\ saved.outcome = "saved" => saved.written = C32_Written(saved)
    /\ \A s \in Saves : saves[s].written /= <<>> =>
          /\ saves[s].mode \in {"add", "edit"}
          /\ \E n \in 1..Len(C32_Written(saves[s])) :
                saves[s].written = SubSeq(C32_Written(saves[s]), 1, n)

C32_EditAfterRename ==
    [][\A s \in Saves :
          Len(saves'[s].written) = 2 /\ Len(saves[s].written) = 1
              => /\ saves[s].pc = "updateModelConfigurationKey"
                 /\ models'[saves[s].initialModelItem[1].key] = NoModel
                 /\ models'[saves[s].updatedModelItem[1].key] =
                        models[saves[s].initialModelItem[1].key]]_vars

C32_OrderOfWrites == []C32_WritesByMode /\ C32_EditAfterRename

C32_Witness ==
    /\ saved.outcome = "saved"
    /\ saved.mode = "edit"
    /\ saved.initialModelItem[1].key = "mine"
    /\ saved.updatedModelItem[1].key = "new"
    /\ Len(saved.written) = 2
    /\ models["mine"] = NoModel

\* C33: EditProviderConfigurationWidget.save() called with the configuration
\* the widget was opened with calls editProviderConfiguration not at all and
\* changes nothing of the widget, which stays on screen, nor of the providers
\* configured; called with a changed configuration, it has called
\* editProviderConfiguration once when it returns, for the type of the
\* provider opened and with the field values of the call, and the widget is
\* hidden.
C33_Unchanged(run) ==
    getProviderConfig(run.initial[1]) = getProviderConfig(run.entry[1])

C33_Returned ==
    providerSaved.outcome \in {"unchanged", "saved"} =>
        IF C33_Unchanged(providerSaved)
        THEN /\ providerSaved.outcome = "unchanged"
             /\ providerSaved.written = <<>>
             /\ providerVisible
        ELSE /\ providerSaved.outcome = "saved"
             /\ providerSaved.written =
                   <<[type |-> providerSaved.initial[1].type,
                      config |-> [name |-> providerSaved.entry[1].name,
                                  apiKey |-> providerSaved.entry[1].apiKey]]>>
             /\ providers[providerSaved.initial[1].type] = providerSaved.entry[1].apiKey
             /\ ~providerVisible

C33_CalledOnlyWhenChanged ==
    \A s \in Saves :
        providerSaves[s].pc = "editProviderConfiguration" =>
            /\ ~C33_Unchanged(providerSaves[s])
            /\ Len(providerSaves[s].written) = 1

C33_UnchangedSaveChangesNothing ==
    [][providerSaved'.outcome = "unchanged" =>
          UNCHANGED <<providerVisible, initialProviderItemEntry, providerItemEntry,
                      providerSaveButton, providerOnHide, providerPromises, providers>>]_vars

C33_ProviderSave ==
    /\ [](C33_Returned /\ C33_CalledOnlyWhenChanged)
    /\ C33_UnchangedSaveChangesNothing

C33_Witness ==
    /\ providerSaved.outcome = "saved"
    /\ providerSaved.initial[1].apiKey = ""
    /\ providerSaved.entry[1].apiKey = "sk-1"
    /\ providers[providerSaved.initial[1].type] = "sk-1"
    /\ ~providerVisible

====
